---- MODULE Spec2Model ----
(***************************************************************************)
(* The engineer form of fe-form-angular: AppComponent (reactive form with  *)
(* sync validators, the async email-uniqueness validator, the hobby        *)
(* FormArray, onSubmit with its delayed reset, ngOnDestroy) and            *)
(* UserService (addUser, checkEmailExists).                                *)
(*                                                                         *)
(* A control value is a record: Null (what FormGroup.reset leaves),        *)
(* Text(s) for a string s, Date(y) for a date value whose local year is y. *)
(* An errors object is the set of its keys; {} is null (no error).         *)
(* Time is counted in milliseconds and advances TickMs at a time.          *)
(***************************************************************************)
EXTENDS Integers, Sequences, FiniteSets

\* ---------------------------------------------------------------- bounds
MaxHobbies == 1      \* addHobby is offered while the list is shorter (Spec)
MaxListLen == 3      \* the same, where only the hobby list is exercised (SpecHobbies)
MaxSubmits == 2      \* submissions under way at once: posts in flight plus delays pending
MaxUsers == 2        \* longest user list the backend returns
TickMs == 1500       \* granularity of the clock
CurrentYear == 2026  \* what new Date().getFullYear() returns
MaxStrLen == 22      \* longest name/hobby string fed to the validators
AgeMargin == 3       \* ages tried below MinAge and above MaxAge

\* ------------------------------------------------------ program constants
MinLen == 4          \* Validators.minLength(4)
MaxLen == 20         \* Validators.maxLength(20)
MinAge == 18         \* ageValidator(18, 100)
MaxAge == 100
ResetDelay == 3000   \* delay(3000)

\* ----------------------------------------------------------------- values
Null == [null |-> TRUE]
Text(s) == [null |-> FALSE, s |-> s]
Date(y) == [null |-> FALSE, year |-> y]

IsText(v) == "s" \in DOMAIN v
IsDate(v) == "year" \in DOMAIN v

RECURSIVE StrOfLen(_)
StrOfLen(n) == IF n = 0 THEN "" ELSE "x" \o StrOfLen(n - 1)

\* Angular's isEmptyInputValue: null, or a string of length 0.
isEmptyInputValue(v) == v.null \/ (IsText(v) /\ Len(v.s) = 0)

\* JavaScript falsiness of a control value: null or ''.
Falsy(v) == v.null \/ (IsText(v) /\ Len(v.s) = 0)

\* ------------------------------------------------------------- validators
required(v) == IF isEmptyInputValue(v) THEN {"required"} ELSE {}

\* minLength with the bound itself rejected.
minLengthInclusive(n, v) ==
  IF isEmptyInputValue(v) \/ ~IsText(v) THEN {}
  ELSE IF Len(v.s) <= n THEN {"minlength"} ELSE {}

minLength(n, v) ==
  IF isEmptyInputValue(v) \/ ~IsText(v) THEN {}
  ELSE IF Len(v.s) < n THEN {"minlength"} ELSE {}

maxLength(n, v) ==
  IF IsText(v) /\ Len(v.s) > n THEN {"maxlength"} ELSE {}

nameValidators(v) == required(v) \cup minLength(MinLen, v) \cup maxLength(MaxLen, v)

\* ageValidator with both bounds excluded from the range.
ageValidatorExclusive(min, max, v, currentYear) ==
  IF Falsy(v) THEN {}
  ELSE IF ~IsDate(v) THEN {}
  ELSE LET age == currentYear - v.year
       IN IF age <= min \/ age >= max THEN {"ageRange"} ELSE {}

\* new Date(value).getFullYear() is NaN for a string that is no date; every
\* comparison with NaN is false, so neither bound is reported as crossed.
ageValidator(min, max, v, currentYear) ==
  IF Falsy(v) THEN {}
  ELSE IF ~IsDate(v) THEN {}
  ELSE LET birthYear == v.year
           age == currentYear - birthYear
       IN IF age < min \/ age > max THEN {"ageRange"} ELSE {}

dateOfBirthValidators(v) == required(v) \cup ageValidator(MinAge, MaxAge, v, CurrentYear)

\* Validators.email on a string given as a sequence of characters: one "@",
\* a local part and a domain that are non-empty, neither starting nor ending
\* with a dot nor holding two dots in a row.
DotAtoms(cs) ==
  /\ Len(cs) > 0
  /\ cs[1] # "." /\ cs[Len(cs)] # "."
  /\ \A i \in 1..(Len(cs) - 1) : ~(cs[i] = "." /\ cs[i + 1] = ".")
  /\ \A i \in 1..Len(cs) : cs[i] # "@"

EmailShape(cs) ==
  \E i \in 1..Len(cs) :
    /\ cs[i] = "@"
    /\ DotAtoms(SubSeq(cs, 1, i - 1))
    /\ DotAtoms(SubSeq(cs, i + 1, Len(cs)))

emailValidator(v) ==
  IF isEmptyInputValue(v) THEN {}
  ELSE IF IsText(v) /\ EmailShape(v.s) THEN {} ELSE {"email"}

emailSyncValidators(v) == required(v) \cup emailValidator(v)

\* The sync validators ngOnInit gives each control; addHobby gives a new hobby
\* control the ones the first hobby control has.
NameFields == {"firstName", "lastName", "hobbies"}

FieldValidators(field, v) ==
  CASE field \in NameFields -> nameValidators(v)
    [] field = "dateOfBirth" -> dateOfBirthValidators(v)
    [] field \in {"framework", "frameworkVersion"} -> required(v)
    [] field = "email" -> emailSyncValidators(v)

\* ----------------------------------------------------------- UserService
\* An HTTP outcome of GET users?email=...: the list of users the backend
\* returned, or a transport/server error.
Ok(users) == [ok |-> TRUE, users |-> users]
HttpError == [ok |-> FALSE]

\* checkEmailExists: map(users => users.length > 0); an error passes through.
checkEmailExists(resp) ==
  IF resp.ok THEN [ok |-> TRUE, value |-> Len(resp.users) > 0] ELSE [ok |-> FALSE]

\* emailAsyncValidator without its catchError: a failed lookup fails the validator.
emailAsyncValidatorNoCatch(resp) ==
  LET r == checkEmailExists(resp)
  IN IF r.ok THEN [ok |-> TRUE, errors |-> IF r.value THEN {"emailTaken"} ELSE {}]
     ELSE [ok |-> FALSE, errors |-> {}]

\* emailAsyncValidator: map(isEmailTaken => ...), catchError(() => of(null)).
emailAsyncValidator(resp) ==
  LET r == checkEmailExists(resp)
  IN IF r.ok THEN [ok |-> TRUE, errors |-> IF r.value THEN {"emailTaken"} ELSE {}]
     ELSE [ok |-> TRUE, errors |-> {}]

\* ------------------------------------------------------------------ state
VARIABLES
  firstName, lastName, dateOfBirth, framework, frameworkVersion,  \* control values
  versionDisabled,   \* frameworkVersion is disabled
  email,             \* value of the email control
  emailErrors,       \* errors object of the email control
  emailPending,      \* the email control awaits its async validator
  emailChecks,       \* subscribed email lookups in flight, by the value sent
  superseded,        \* the email control's latest validation run unsubscribed a lookup
  checkedFor,        \* <<v>>: the async outcome in emailErrors answers the lookup of v
  hobbies,           \* values of the controls of the hobbies FormArray
  isSubmitted,
  destroyed,         \* destroy$ has emitted
  posts,             \* subscribed addUser calls in flight
  timers,            \* remaining ms of each subscribed delay(3000), oldest first
  lastOutcome,       \* history: what onSubmit or an addUser callback did if one of
                     \* them was the last to run ("blocked", "sent", "next", "error"),
                     \* "none" otherwise
  sinceNext,         \* history: ms since the latest next() of addUser, up to ResetDelay
  probe, verdict     \* history: the latest call recorded and what it returned

formVars == <<firstName, lastName, dateOfBirth, framework, frameworkVersion,
              versionDisabled, email, emailErrors, emailPending, emailChecks,
              superseded, checkedFor, hobbies>>
submitVars == <<isSubmitted, posts, timers>>
history == <<lastOutcome, sinceNext, probe, verdict>>
vars == <<formVars, submitVars, destroyed, history>>

\* The values the user types or picks.
\* A field starts empty (Init) and is null after a reset.
FirstNameInputs == {Text("abc"), Text("abcd")}
LastNameInputs == {Text("abcd")}
DateInputs == {Date(CurrentYear - MinAge + 1), Date(CurrentYear - MinAge)}
FrameworkInputs == {Text("angular")}
VersionInputs == {Text("1.1.1")}
EmailInputs == {Text(<<"a">>), Text(<<"a", "@", "b">>), Text(<<"c", "@", "b">>)}
HobbyInputs == {Text(""), Text("chess")}
ListInputs == {Text(""), Text("chess"), Text("golf")}
Responses == {Ok(<<>>), Ok(<<"u1">>), HttpError}

\* The values fed to the validators one at a time.
StringProbes == {Null} \cup {Text(StrOfLen(n)) : n \in 0..MaxStrLen}
DateProbes ==
  {Null, Text(""), Text("n/a")}
  \cup {Date(y) : y \in (CurrentYear - MaxAge - AgeMargin)..(CurrentYear - MinAge + AgeMargin)}
ResponseProbes == {Ok([i \in 1..n |-> "u"]) : n \in 0..MaxUsers} \cup {HttpError}

\* ----------------------------------------------------------- form status
Status(errors, pending) ==
  IF errors # {} THEN "INVALID" ELSE IF pending THEN "PENDING" ELSE "VALID"

\* Statuses of the enabled controls of the group; a disabled control is left out.
ControlStatuses ==
  {Status(FieldValidators("firstName", firstName), FALSE),
   Status(FieldValidators("lastName", lastName), FALSE),
   Status(FieldValidators("dateOfBirth", dateOfBirth), FALSE),
   Status(FieldValidators("framework", framework), FALSE),
   Status(emailErrors, emailPending)}
  \cup (IF versionDisabled THEN {}
        ELSE {Status(FieldValidators("frameworkVersion", frameworkVersion), FALSE)})
  \cup {Status(FieldValidators("hobbies", hobbies[i]), FALSE) : i \in 1..Len(hobbies)}

\* FormGroup status: PENDING before INVALID, VALID when neither occurs.
FormStatus ==
  IF "PENDING" \in ControlStatuses THEN "PENDING"
  ELSE IF "INVALID" \in ControlStatuses THEN "INVALID"
  ELSE "VALID"

FormValid == FormStatus = "VALID"

\* ------------------------------------------------------------------- Init
\* The state after ngOnInit.
Init ==
  /\ firstName = Text("") /\ lastName = Text("") /\ dateOfBirth = Text("")
  /\ framework = Text("") /\ frameworkVersion = Text("") /\ versionDisabled = TRUE
  /\ email = Text(<<>>)
  /\ emailErrors = FieldValidators("email", Text(<<>>))
  /\ emailPending = FALSE /\ emailChecks = {} /\ superseded = FALSE /\ checkedFor = <<>>
  /\ hobbies = <<Text("")>>
  /\ isSubmitted = FALSE /\ destroyed = FALSE
  /\ posts = 0 /\ timers = <<>>
  /\ lastOutcome = "none" /\ sinceNext = ResetDelay
  /\ probe = [fn |-> "none"] /\ verdict = {}

\* ----------------------------------------------------------- form editing
emailVars == <<email, emailErrors, emailPending, emailChecks, superseded, checkedFor>>

SetFirstName(v) ==
  /\ ~destroyed
  /\ firstName' = v
  /\ UNCHANGED <<lastName, dateOfBirth, framework, frameworkVersion, versionDisabled,
                 emailVars, hobbies, submitVars, destroyed>>

SetLastName(v) ==
  /\ ~destroyed
  /\ lastName' = v
  /\ UNCHANGED <<firstName, dateOfBirth, framework, frameworkVersion, versionDisabled,
                 emailVars, hobbies, submitVars, destroyed>>

SetDateOfBirth(v) ==
  /\ ~destroyed
  /\ dateOfBirth' = v
  /\ UNCHANGED <<firstName, lastName, framework, frameworkVersion, versionDisabled,
                 emailVars, hobbies, submitVars, destroyed>>

SetFramework(v) ==
  /\ ~destroyed
  /\ framework' = v
  /\ UNCHANGED <<firstName, lastName, dateOfBirth, frameworkVersion, versionDisabled,
                 emailVars, hobbies, submitVars, destroyed>>

enableVersion ==
  /\ ~destroyed
  /\ versionDisabled' = FALSE
  /\ UNCHANGED <<firstName, lastName, dateOfBirth, framework, frameworkVersion,
                 emailVars, hobbies, submitVars, destroyed>>

SetFrameworkVersion(v) ==
  /\ ~destroyed
  /\ ~versionDisabled
  /\ frameworkVersion' = v
  /\ UNCHANGED <<firstName, lastName, dateOfBirth, framework, versionDisabled,
                 emailVars, hobbies, submitVars, destroyed>>

\* A validation run that leaves the earlier lookup subscribed.
KeepExistingSubscription(checks) == checks

\* The lookups still subscribed once the control starts a new validation run:
\* the control unsubscribes from the one it was waiting for.
CancelExistingSubscription(checks) == {}

\* updateValueAndValidity of the email control for value v: drop the lookup
\* in flight, run the sync validators, and start the async validator only
\* when they pass.
ValidateEmail(v) ==
  LET sync == FieldValidators("email", v)
      kept == CancelExistingSubscription(emailChecks)
  IN /\ email' = v
     /\ emailErrors' = sync
     /\ checkedFor' = <<>>
     /\ superseded' = (kept # emailChecks)
     /\ IF sync = {}
        THEN emailPending' = TRUE /\ emailChecks' = kept \cup {v}
        ELSE emailPending' = FALSE /\ emailChecks' = kept

SetEmail(v) ==
  /\ ~destroyed
  /\ ValidateEmail(v)
  /\ UNCHANGED <<firstName, lastName, dateOfBirth, framework, frameworkVersion,
                 versionDisabled, hobbies, submitVars, destroyed>>

\* A response to a subscribed lookup reaches the async validator, whose result
\* becomes the control's errors. Nothing unsubscribes a lookup on destroy.
EmailCheckResponse(v, resp) ==
  /\ v \in emailChecks
  /\ emailChecks' = emailChecks \ {v}
  /\ emailErrors' = emailAsyncValidator(resp).errors
  /\ emailPending' = FALSE
  /\ checkedFor' = <<v>>
  /\ UNCHANGED <<firstName, lastName, dateOfBirth, framework, frameworkVersion,
                 versionDisabled, email, superseded, hobbies, submitVars, destroyed>>

\* ---------------------------------------------------------------- hobbies
SetHobby(i, v) ==
  /\ ~destroyed
  /\ i \in 1..Len(hobbies)
  /\ hobbies' = [hobbies EXCEPT ![i] = v]
  /\ UNCHANGED <<firstName, lastName, dateOfBirth, framework, frameworkVersion,
                 versionDisabled, emailVars, submitVars, destroyed>>

addHobby ==
  /\ ~destroyed
  /\ hobbies' = Append(hobbies, Text(""))
  /\ UNCHANGED <<firstName, lastName, dateOfBirth, framework, frameworkVersion,
                 versionDisabled, emailVars, submitVars, destroyed>>

\* removeAt taking the index as 1-based.
removeAtOneBased(list, index) ==
  SubSeq(list, 1, index - 1) \o SubSeq(list, index + 1, Len(list))

\* FormArray.removeAt(index) for a 0-based index inside the list.
removeAt(list, index) ==
  SubSeq(list, 1, index) \o SubSeq(list, index + 2, Len(list))

removeHobby(index) ==
  /\ ~destroyed
  /\ index \in 0..(Len(hobbies) - 1)
  /\ hobbies' = removeAt(hobbies, index)
  /\ UNCHANGED <<firstName, lastName, dateOfBirth, framework, frameworkVersion,
                 versionDisabled, emailVars, submitVars, destroyed>>

\* ------------------------------------------------------------- submission
\* A validity test that lets a pending form through.
validUnlessInvalid == FormStatus # "INVALID"

\* engineerForm.valid
valid == FormValid

\* onSubmit: one addUser call when the form is valid, nothing otherwise.
onSubmit ==
  /\ ~destroyed
  /\ IF valid
     THEN posts' = posts + 1
     ELSE UNCHANGED posts
  /\ UNCHANGED <<formVars, isSubmitted, timers, destroyed>>

\* next() of the addUser subscription: raise the flag, start delay(3000).
AddUserNext ==
  /\ posts > 0
  /\ posts' = posts - 1
  /\ isSubmitted' = TRUE
  /\ timers' = Append(timers, ResetDelay)
  /\ UNCHANGED <<formVars, destroyed>>

\* An error callback that sends the request again.
AddUserErrorRetry ==
  /\ posts > 0
  /\ UNCHANGED <<formVars, submitVars, destroyed>>

\* The addUser observable errors: the subscription has no error callback and
\* ends.
AddUserError ==
  /\ posts > 0
  /\ posts' = posts - 1
  /\ UNCHANGED <<formVars, isSubmitted, timers, destroyed>>

Max(a, b) == IF a > b THEN a ELSE b
Min(a, b) == IF a < b THEN a ELSE b

\* TickMs pass; a delay that is due fires before more time passes.
Tick ==
  /\ \A i \in 1..Len(timers) : timers[i] > 0
  /\ timers' = [i \in 1..Len(timers) |-> Max(0, timers[i] - TickMs)]
  /\ UNCHANGED <<formVars, isSubmitted, posts, destroyed>>

\* A reset that forgets hobbies.clear(): the hobby controls stay, set to null.
DelayedResetKeepsHobbies ==
  /\ timers # <<>>
  /\ Head(timers) = 0
  /\ timers' = Tail(timers)
  /\ isSubmitted' = FALSE
  /\ firstName' = Null /\ lastName' = Null /\ dateOfBirth' = Null
  /\ framework' = Null /\ frameworkVersion' = Null
  /\ ValidateEmail(Null)
  /\ hobbies' = [i \in 1..Len(hobbies) |-> Null]
  /\ UNCHANGED <<versionDisabled, posts, destroyed>>

\* The tap() after delay(3000): clear the flag, resetForm(), hobbies.clear().
\* resetForm() sets every control to null and revalidates it.
DelayedReset ==
  /\ timers # <<>>
  /\ Head(timers) = 0
  /\ timers' = Tail(timers)
  /\ isSubmitted' = FALSE
  /\ firstName' = Null /\ lastName' = Null /\ dateOfBirth' = Null
  /\ framework' = Null /\ frameworkVersion' = Null
  /\ ValidateEmail(Null)
  /\ hobbies' = <<>>
  /\ UNCHANGED <<versionDisabled, posts, destroyed>>

\* destroy$.next(): every takeUntil(destroy$) subscription ends.
ngOnDestroy ==
  /\ ~destroyed
  /\ destroyed' = TRUE
  /\ posts' = 0
  /\ timers' = <<>>
  /\ UNCHANGED <<formVars, isSubmitted>>

\* ------------------------------------------------------- specifications
\* The history variables after a step: what it did, and the clock since the
\* latest next().
Same == sinceNext
Passed == Min(ResetDelay, sinceNext + TickMs)

Note(outcome, clock) ==
  /\ lastOutcome' = outcome
  /\ sinceNext' = clock
  /\ UNCHANGED <<probe, verdict>>

\* A call recorded with its argument.
Call(fn, arg) ==
  /\ probe' = [fn |-> fn, arg |-> arg]
  /\ UNCHANGED <<verdict, lastOutcome, sinceNext>>

\* Any clicks: onSubmit may be called again while earlier submissions are under
\* way. Of the history only the clock is kept.
Next ==
  \/ (\E v \in FirstNameInputs : SetFirstName(v)) /\ Note("none", Same)
  \/ (\E v \in LastNameInputs : SetLastName(v)) /\ Note("none", Same)
  \/ (\E v \in DateInputs : SetDateOfBirth(v)) /\ Note("none", Same)
  \/ (\E v \in FrameworkInputs : SetFramework(v)) /\ Note("none", Same)
  \/ (enableVersion) /\ Note("none", Same)
  \/ (\E v \in VersionInputs : SetFrameworkVersion(v)) /\ Note("none", Same)
  \/ (\E v \in EmailInputs : SetEmail(v)) /\ Note("none", Same)
  \/ (\E i \in 1..MaxHobbies, v \in HobbyInputs : SetHobby(i, v)) /\ Note("none", Same)
  \/ (Len(hobbies) < MaxHobbies /\ addHobby) /\ Note("none", Same)
  \/ (\E index \in 0..(MaxHobbies - 1) : removeHobby(index)) /\ Note("none", Same)
  \/ (posts + Len(timers) < MaxSubmits /\ onSubmit) /\ Note("none", Same)
  \/ (\E v \in emailChecks, resp \in Responses : EmailCheckResponse(v, resp)) /\ Note("none", Same)
  \/ (AddUserNext) /\ Note("none", 0)
  \/ (AddUserError) /\ Note("none", Same)
  \/ (Tick) /\ Note("none", Passed)
  \/ (DelayedReset) /\ Note("none", Same)
  \/ (ngOnDestroy) /\ Note("none", Same)

Spec == Init /\ [][Next]_vars

\* One submission at a time: onSubmit finds the form valid only when no earlier
\* submission is under way.
NextOneSubmit ==
  \/ (\E v \in FirstNameInputs : SetFirstName(v)) /\ Note("none", Same)
  \/ (\E v \in LastNameInputs : SetLastName(v)) /\ Note("none", Same)
  \/ (\E v \in DateInputs : SetDateOfBirth(v)) /\ Note("none", Same)
  \/ (\E v \in FrameworkInputs : SetFramework(v)) /\ Note("none", Same)
  \/ (enableVersion) /\ Note("none", Same)
  \/ (\E v \in VersionInputs : SetFrameworkVersion(v)) /\ Note("none", Same)
  \/ (\E v \in EmailInputs : SetEmail(v)) /\ Note("none", Same)
  \/ (\E i \in 1..MaxHobbies, v \in HobbyInputs : SetHobby(i, v)) /\ Note("none", Same)
  \/ (Len(hobbies) < MaxHobbies /\ addHobby) /\ Note("none", Same)
  \/ (\E index \in 0..(MaxHobbies - 1) : removeHobby(index)) /\ Note("none", Same)
  \/ (~valid /\ onSubmit) /\ Note("blocked", Same)
  \/ (valid /\ posts = 0 /\ timers = <<>> /\ onSubmit) /\ Note("sent", Same)
  \/ (\E v \in emailChecks, resp \in Responses : EmailCheckResponse(v, resp)) /\ Note("none", Same)
  \/ (AddUserNext) /\ Note("next", 0)
  \/ (AddUserError) /\ Note("error", Same)
  \/ (Tick) /\ Note("none", Passed)
  \/ (DelayedReset) /\ Note("none", Same)
  \/ (ngOnDestroy) /\ Note("none", Same)

SpecOneSubmit == Init /\ [][NextOneSubmit]_vars

\* Only the hobby list and one other field are edited; a removeHobby call is
\* recorded with its index.
NextHobbies ==
  \/ (\E i \in 1..MaxListLen, v \in ListInputs : SetHobby(i, v)) /\ Call("SetHobby", 0)
  \/ (Len(hobbies) < MaxListLen /\ addHobby) /\ Call("addHobby", 0)
  \/ \E index \in 0..(MaxListLen - 1) : removeHobby(index) /\ Call("removeHobby", index)
  \/ (\E v \in FirstNameInputs : SetFirstName(v)) /\ Call("SetFirstName", 0)

SpecHobbies == Init /\ [][NextHobbies]_vars

\* A control of the given field takes value v and its sync validators run.
ValidateField(field, v) ==
  /\ probe' = [fn |-> field, arg |-> v]
  /\ verdict' = FieldValidators(field, v)
  /\ UNCHANGED <<formVars, submitVars, destroyed, lastOutcome, sinceNext>>

\* The validator that ageValidator(18, 100) returns runs on value v.
ApplyAgeValidator(v) ==
  /\ probe' = [fn |-> "ageValidator", arg |-> v]
  /\ verdict' = ageValidator(MinAge, MaxAge, v, CurrentYear)
  /\ UNCHANGED <<formVars, submitVars, destroyed, lastOutcome, sinceNext>>

\* The email lookup ends with resp: what checkEmailExists and the async
\* validator make of it.
ApplyEmailAsyncValidator(resp) ==
  /\ probe' = [fn |-> "emailAsyncValidator", arg |-> resp]
  /\ verdict' = [exists |-> checkEmailExists(resp), validation |-> emailAsyncValidator(resp)]
  /\ UNCHANGED <<formVars, submitVars, destroyed, lastOutcome, sinceNext>>

NextValidators ==
  \/ \E field \in NameFields, v \in StringProbes : ValidateField(field, v)
  \/ \E v \in DateProbes : ApplyAgeValidator(v)
  \/ \E resp \in ResponseProbes : ApplyEmailAsyncValidator(resp)

SpecValidators == Init /\ [][NextValidators]_vars

\* ------------------------------------------------------------- properties
\* The error tags the enabled controls carry.
FieldErrorTags ==
  FieldValidators("firstName", firstName)
  \cup FieldValidators("lastName", lastName)
  \cup FieldValidators("dateOfBirth", dateOfBirth)
  \cup FieldValidators("framework", framework)
  \cup (IF versionDisabled THEN {} ELSE FieldValidators("frameworkVersion", frameworkVersion))
  \cup emailErrors
  \cup UNION {FieldValidators("hobbies", hobbies[i]) : i \in 1..Len(hobbies)}

ErrorOrPending == FieldErrorTags # {} \/ emailPending

FieldValues == <<firstName, lastName, dateOfBirth, framework, frameworkVersion, email>>

FormCleared == \A i \in 1..Len(FieldValues) : FieldValues[i] = Null

\* What a callback running after teardown would change.
ViewState == <<isSubmitted, FieldValues, emailErrors, emailPending, hobbies>>

\* C1: from a state where an enabled field carries a validation error or the
\* email check is pending, no step issues an addUser request, and an onSubmit
\* call there is blocked and leaves isSubmitted, the field values and the
\* hobby list as they were.
C1_InvalidFormSendsNothing ==
  [][ErrorOrPending =>
       /\ posts' <= posts
       /\ lastOutcome' # "sent"
       /\ (lastOutcome' = "blocked" => UNCHANGED <<formVars, submitVars>>)]_vars

\* onSubmit has just been called while nothing but the pending email check
\* kept the form from being valid, and no request went out.
C1_Witness ==
  /\ lastOutcome = "blocked"
  /\ emailPending /\ FieldErrorTags = {}
  /\ posts = 0 /\ ~isSubmitted

\* C2: with one submission at a time, an onSubmit call that finds the form
\* valid issues exactly one addUser request; next() raises isSubmitted at
\* once; the flag is up while fewer than 3000 ms have passed since next(); and
\* the step that lowers it comes no earlier than 3000 ms after next() and, in
\* that same step, sets every field to null and empties the hobby list.
C2_SubmitShowsSuccessThenResets ==
  /\ [](sinceNext < ResetDelay => isSubmitted)
  /\ [][/\ (lastOutcome' = "sent" => posts = 0 /\ posts' = 1)
        /\ (posts' > posts => lastOutcome' = "sent")
        /\ (lastOutcome' = "next" => isSubmitted' /\ sinceNext' = 0)
        /\ (isSubmitted /\ ~isSubmitted' =>
              /\ sinceNext >= ResetDelay
              /\ FormCleared' /\ hobbies' = <<>>)]_vars

\* The delayed reset has run after a success: the flag is down, every field
\* is null, the hobby list has no control.
C2_Witness ==
  /\ ~destroyed /\ ~isSubmitted
  /\ FormCleared /\ hobbies = <<>>
  /\ posts = 0 /\ timers = <<>> /\ sinceNext = ResetDelay

\* C3: a step in which addUser errors ends that request and changes nothing
\* else: isSubmitted, the pending delays, the field values and the hobby list
\* stay; the flag is raised only by next(), and a request is issued only by
\* onSubmit.
C3_ErrorLeavesFormAlone ==
  [][/\ (lastOutcome' = "error" =>
           /\ posts' = posts - 1
           /\ UNCHANGED <<isSubmitted, timers, formVars>>)
     /\ (~isSubmitted /\ isSubmitted' => lastOutcome' = "next")
     /\ (Len(timers') > Len(timers) => lastOutcome' = "next")
     /\ (posts' > posts => lastOutcome' = "sent")]_vars

\* addUser has just errored: no flag, no delay, no request left.
C3_Witness ==
  /\ lastOutcome = "error"
  /\ ~isSubmitted /\ timers = <<>> /\ posts = 0 /\ ~destroyed

\* C4: at most the lookup of the current email value is subscribed, and an
\* async outcome held by the email control (emailTaken or none) answers the
\* lookup of the current value.
C4_LatestEmailCheckWins ==
  /\ emailChecks \subseteq {email}
  /\ (checkedFor # <<>> => checkedFor = <<email>>)
  /\ ("emailTaken" \in emailErrors => checkedFor = <<email>>)
  /\ (emailPending => emailChecks = {email})

\* The email changed while a lookup was in flight, and the control now holds
\* emailTaken from the lookup of its current value.
C4_Witness ==
  /\ superseded
  /\ checkedFor = <<email>>
  /\ "emailTaken" \in emailErrors

\* C5: once the component is destroyed no callback changes isSubmitted, the
\* field values, the email control's error state or the hobby list.
C5_NothingChangesAfterDestroy ==
  [][destroyed => UNCHANGED ViewState]_vars

\* C10: during the 3000 ms after every next() of addUser the flag is up.
C10_FlagUpFullDelayAfterEverySuccess ==
  sinceNext < ResetDelay => isSubmitted

\* C6: the async validator never fails; it yields emailTaken exactly when the
\* lookup succeeded with a non-empty list; checkEmailExists is true exactly
\* for a non-empty list.
C6_EmailTakenIffNonEmptyList ==
  probe.fn = "emailAsyncValidator" =>
    LET resp == probe.arg
        nonEmpty == resp.ok /\ Len(resp.users) > 0
    IN /\ verdict.validation.ok
       /\ verdict.validation.errors = (IF nonEmpty THEN {"emailTaken"} ELSE {})
       /\ (resp.ok => verdict.exists.ok /\ (verdict.exists.value <=> Len(resp.users) > 0))
       /\ (~resp.ok => ~verdict.exists.ok)

\* The lookup failed in transport and the validator reported no error.
C6_Witness ==
  /\ probe.fn = "emailAsyncValidator"
  /\ probe.arg = HttpError
  /\ verdict.validation = [ok |-> TRUE, errors |-> {}]

\* C7: removeHobby(k) on a list of n fields, 0 <= k < n, leaves n-1 fields:
\* those before k as they were, those after k moved up by one; no other form
\* field changes.
C7_RemoveHobbyDropsIndexK ==
  [][probe'.fn = "removeHobby" =>
       LET k == probe'.arg
           n == Len(hobbies)
       IN /\ k \in 0..(n - 1)
          /\ Len(hobbies') = n - 1
          /\ \A i \in 1..k : hobbies'[i] = hobbies[i]
          /\ \A i \in (k + 1)..(n - 1) : hobbies'[i] = hobbies[i + 1]
          /\ UNCHANGED <<FieldValues, versionDisabled, emailErrors, emailPending>>]_vars

\* removeHobby(1) has run on a list of three fields with different values.
C7_Witness ==
  /\ probe = [fn |-> "removeHobby", arg |-> 1]
  /\ hobbies = <<Text("chess"), Text("golf")>>

\* C8: ageValidator(18, 100) returns no error for a date whose age (current
\* year minus birth year) is in 18..100, ageRange for a date whose age is
\* outside, and no error for an empty value.
C8_AgeRange ==
  probe.fn = "ageValidator" =>
    LET v == probe.arg
    IN /\ (IsDate(v) /\ (CurrentYear - v.year) \in MinAge..MaxAge => verdict = {})
       /\ (IsDate(v) /\ (CurrentYear - v.year) \notin MinAge..MaxAge => verdict = {"ageRange"})
       /\ (v = Text("") \/ v = Null => verdict = {})

\* The validator has accepted a birth date of age exactly 18.
C8_Witness ==
  /\ probe.fn = "ageValidator"
  /\ IsDate(probe.arg) /\ CurrentYear - probe.arg.year = MinAge
  /\ verdict = {}

\* C9 as stated: in firstName, lastName and a hobby field, every string
\* shorter than 4 carries minlength, every string longer than 20 carries
\* maxlength, and a string of length 4 to 20 carries no length error.
C9_AsStated ==
  probe.fn \in NameFields /\ IsText(probe.arg) =>
    LET n == Len(probe.arg.s)
    IN /\ (n < MinLen => "minlength" \in verdict)
       /\ (n > MaxLen => "maxlength" \in verdict)
       /\ (n >= MinLen /\ n <= MaxLen => verdict \cap {"minlength", "maxlength"} = {})

\* C9 amended: the empty string carries required alone; a string of length 1
\* to 3 carries minlength; a string longer than 20 carries maxlength; a string
\* of length 4 to 20 carries no error.
C9_LengthErrors ==
  probe.fn \in NameFields /\ IsText(probe.arg) =>
    LET n == Len(probe.arg.s)
    IN /\ (n = 0 => verdict = {"required"})
       /\ (n >= 1 /\ n < MinLen => verdict = {"minlength"})
       /\ (n > MaxLen => verdict = {"maxlength"})
       /\ (n >= MinLen /\ n <= MaxLen => verdict = {})

\* A hobby field holds the empty string and carries required, not minlength.
C9_Witness ==
  /\ probe = [fn |-> "hobbies", arg |-> Text("")]
  /\ verdict = {"required"}

====
